---- MODULE Spec2Model ----
(***************************************************************************)
(* download-music.py: a command-line script that runs youtube-dl over a    *)
(* song list, clears the list, and trims silence from every .mp3 file of   *)
(* the working directory with two sox passes through one temporary file.   *)
(*                                                                         *)
(* The model follows the script statement by statement.  The two external  *)
(* tools are modelled by what the script can observe of them: an exit      *)
(* status and the files they write.  youtube-dl writes any set of files    *)
(* named <title>.mp3 and exits zero or non-zero; sox, given an input it    *)
(* can decode, either writes the trimmed copy and exits zero or exits      *)
(* non-zero leaving its output as it was, and exits non-zero on an input   *)
(* that is not audio.  Both tools are assumed installed and ~/Downloads is *)
(* assumed to exist.                                                       *)
(***************************************************************************)
EXTENDS Integers, Sequences, FiniteSets

\* ------------------------------------------------------------------ bounds

\* Number of distinct track names (<title>.mp3) in the universe of files.
MaxTracks == 1

\* ------------------------------------------------------------- file names

\* A file name is <<stem, number, suffix>>: "track", 1, ".mp3" is track1.mp3.
NoName == <<"", 0, "">>

\* default of --song-list
DefaultList == <<"song-list", 0, ".txt">>

\* a --song-list value whose name ends with the audio extension
AudioList == <<"song-list", 0, ".mp3">>

ListNames == {DefaultList, AudioList}

Tracks == {<<"track", i, ".mp3">> : i \in 1..MaxTracks}

Names == ListNames \cup Tracks

\* str.endswith
EndsWith(f, suffix) == f[3] = suffix

AudioNames == {f \in Names : EndsWith(f, ".mp3")}

\* ---------------------------------------------------------- file contents

Absent == [kind |-> "absent", id |-> NoName, lead |-> FALSE, trail |-> FALSE]

\* a file of zero bytes
Empty == [kind |-> "empty", id |-> NoName, lead |-> FALSE, trail |-> FALSE]

\* a list of URLs, one per line
Urls == [kind |-> "text", id |-> NoName, lead |-> FALSE, trail |-> FALSE]

\* audio taken from source id, with or without leading and trailing silence
Audio(id, lead, trail) == [kind |-> "audio", id |-> id, lead |-> lead, trail |-> trail]

Fresh(id) == Audio(id, TRUE, TRUE)

Decodable(c) == c.kind = "audio"

\* sox IN OUT reverse silence 1 0.1 0.1% reverse: strips the trailing silence
ReverseTrim(c) == Audio(c.id, c.lead, FALSE)

\* sox IN OUT silence 1 0.1 0.1%: strips the leading silence
ForwardTrim(c) == Audio(c.id, FALSE, c.trail)

\* os.path.isfile
IsFile(dir, f) == dir[f] # Absent

\* os.listdir
ListDir(dir) == {f \in Names : dir[f] # Absent}

Dirs == {"start", "downloads"}

\* ------------------------------------------------------------------ state

VARIABLES
    argv,        \* the command line: the flags given
    args,        \* the parsed namespace
    pc,          \* the statement the script is at
    cwd,         \* the process's current directory
    fs,          \* the file system: directory -> name -> content
    fs0,         \* the file system when the script started
    running,     \* the child processes that are alive
    dlRet,       \* exit status of youtube-dl, -1 before it has exited
    todo,        \* the .mp3 entries of the listing not yet iterated
    listing,     \* what os.listdir('.') returned
    f,           \* the loop variable of trim_mp3s
    pre,         \* content of f when its iteration began
    ret1,        \* exit status of the reverse pass on f
    ret2,        \* exit status of the forward pass on f
    sox_tmp,     \* name of the NamedTemporaryFile
    tmpContent,  \* content of the temporary file, Absent when it does not exist
    tmpCreated,  \* number of temporary files created so far
    out,         \* the messages printed, in order
    hist,        \* the steps taken and child processes run, in order
    exitStatus,  \* the process's exit status, -1 while it runs
    intAt        \* the statement a KeyboardInterrupt arrived at, "none" if none

vars == <<argv, args, pc, cwd, fs, fs0, running, dlRet, todo, listing, f, pre,
          ret1, ret2, sox_tmp, tmpContent, tmpCreated, out, hist, exitStatus, intAt>>

trimVars == <<todo, listing, f, pre, ret1, ret2, sox_tmp, tmpContent, tmpCreated>>

\* a step of the run: what happened, to which file, through which temporary
\* file, and the exit status a child ended with (-1 when there is none)
Event(ev, file, tmp, rc) == [ev |-> ev, f |-> file, tmp |-> tmp, rc |-> rc]

Msg(kind, file) == [kind |-> kind, f |-> file]

\* The flags on the command line.
Argv == [song_list : ListNames, force : BOOLEAN, quiet : BOOLEAN, wd : BOOLEAN,
         notrim : BOOLEAN, nodownload : BOOLEAN, noclear : BOOLEAN]

NoArgs == [song_list |-> NoName, force |-> FALSE, quiet |-> FALSE, wd |-> FALSE,
           trim |-> FALSE, download |-> FALSE, clear |-> FALSE]

\* The directory images the script may be started over: a list file, whatever
\* its name, holds URLs; a track holds audio with silence at both ends.
DirImages ==
    {d \in [Names -> {Absent, Urls} \cup {Fresh(n) : n \in Names}] :
        /\ \A l \in ListNames : d[l] \in {Absent, Urls}
        /\ \A t \in Tracks : d[t] \in {Absent, Fresh(t)}}

\* The other directory holds at most a default list file.
OtherImages ==
    {d \in DirImages : \A n \in Names \ {DefaultList} : d[n] = Absent}

\* the directory the script will work in
Resolved(wd) == IF wd THEN "start" ELSE "downloads"

Init ==
    /\ argv \in Argv
    /\ args = NoArgs
    /\ pc = "parse"
    /\ cwd = "start"
    /\ \E img \in DirImages, other \in OtherImages :
          fs = [d \in Dirs |-> IF d = Resolved(argv.wd) THEN img ELSE other]
    /\ fs0 = fs
    /\ running = {}
    /\ dlRet = -1
    /\ todo = {}
    /\ listing = {}
    /\ f = NoName
    /\ pre = Absent
    /\ ret1 = -1
    /\ ret2 = -1
    /\ sox_tmp = NoName
    /\ tmpContent = Absent
    /\ tmpCreated = 0
    /\ out = <<>>
    /\ hist = <<>>
    /\ exitStatus = -1
    /\ intAt = "none"

\* --------------------------------------------------------------- __main__

\* Variant: the two flags added to the parser directly, not to a mutually
\* exclusive group.
MutuallyExclusive_NoGroup(a) == FALSE

\* parser.parse_args(): --notrim and --nodownload are in one mutually
\* exclusive group; giving both is a usage error (status 2).
MutuallyExclusive(a) == a.notrim /\ a.nodownload

ParseArgs ==
    /\ pc = "parse"
    /\ IF MutuallyExclusive(argv)
       THEN /\ out' = Append(out, Msg("usage", NoName))
            /\ exitStatus' = 2
            /\ pc' = "done"
            /\ args' = args
       ELSE /\ args' = [song_list |-> argv.song_list, force |-> argv.force,
                        quiet |-> argv.quiet, wd |-> argv.wd,
                        trim |-> ~argv.notrim, download |-> ~argv.nodownload,
                        clear |-> ~argv.noclear]
            /\ pc' = "check_dir"
            /\ UNCHANGED <<out, exitStatus>>
    /\ UNCHANGED <<argv, cwd, fs, fs0, running, dlRet, trimVars, hist, intAt>>

\* Variant: the list file looked up before the directory change.
FileNeededMissing_BeforeChdir(dir) == args.download /\ ~IsFile(fs[cwd], args.song_list)

\* check_dir(args.wd, args.song_list, args.download)
FileNeededMissing(dir) == args.download /\ ~IsFile(fs[dir], args.song_list)

CheckDir ==
    /\ pc = "check_dir"
    /\ cwd' = IF ~args.wd THEN "downloads" ELSE cwd
    /\ IF FileNeededMissing(cwd')
       THEN /\ out' = Append(out, Msg("ERROR: Could not find song list", args.song_list))
            /\ exitStatus' = 1
            /\ pc' = "done"
            /\ hist' = hist
       ELSE /\ pc' = IF args.download THEN "download" ELSE "trim"
            /\ hist' = IF args.download
                       THEN Append(hist, Event("check", args.song_list, NoName, -1))
                       ELSE hist
            /\ UNCHANGED <<out, exitStatus>>
    /\ UNCHANGED <<argv, args, fs, fs0, running, dlRet, trimVars, intAt>>

\* What a youtube-dl run leaves behind: the files of S written as new audio.
Downloaded(dir, S) == [n \in Names |-> IF n \in S THEN Fresh(n) ELSE dir[n]]

\* The files a youtube-dl run may write: --output '%(title)s.%(ext)s' with
\* --audio-format mp3 names them <title>.mp3; the batch file it reads (-a) is
\* not one of them.
DlTargets == AudioNames \ {args.song_list}

\* download(): subprocess.run(['youtube-dl'] + dl_args) starts the child ...
DownloadStart ==
    /\ pc = "download"
    /\ running' = running \cup {"youtube-dl"}
    /\ hist' = Append(hist, Event("dl_start", args.song_list, NoName, -1))
    /\ pc' = "dl_running"
    /\ UNCHANGED <<argv, args, cwd, fs, fs0, dlRet, trimVars, out, exitStatus, intAt>>

\* Variant: --force taken to mean that a failed download is not fatal.
DownloadFailed_UnlessForce(rc) == rc # 0 /\ ~args.force

\* if subprocess.run(...).returncode: exit(...)
DownloadFailed(rc) == rc # 0

\* Variant: the clearing step left out.
AfterDownload_NeverClear == "trim"

\* if args.clear: the list is cleared next, otherwise the trimming decision
AfterDownload == IF args.clear THEN "clear" ELSE "trim"

\* ... and waits for it; a non-zero return code is fatal (exit with a message).
DownloadEnd ==
    /\ pc = "dl_running"
    /\ \E rc \in {0, 1}, S \in SUBSET DlTargets :
          /\ dlRet' = rc
          /\ fs' = [fs EXCEPT ![cwd] = Downloaded(fs[cwd], S)]
    /\ running' = running \ {"youtube-dl"}
    /\ hist' = Append(hist, Event("dl_end", args.song_list, NoName, dlRet'))
    /\ IF DownloadFailed(dlRet')
       THEN /\ out' = Append(out, Msg("ERROR: Could not download from list", NoName))
            /\ exitStatus' = 1
            /\ pc' = "done"
       ELSE /\ pc' = AfterDownload
            /\ UNCHANGED <<out, exitStatus>>
    /\ UNCHANGED <<argv, args, cwd, fs0, trimVars, intAt>>

\* with open(args.song_list, 'w') as f: f.write('')
ClearList ==
    /\ pc = "clear"
    /\ fs' = [fs EXCEPT ![cwd][args.song_list] = Empty]
    /\ out' = IF ~args.quiet THEN Append(out, Msg("Download list cleared", NoName)) ELSE out
    /\ hist' = Append(hist, Event("clear", args.song_list, NoName, -1))
    /\ pc' = "trim"
    /\ UNCHANGED <<argv, args, cwd, fs0, running, dlRet, trimVars, exitStatus, intAt>>

\* if args.trim: trim_mp3s(args.quiet) -- without trimming the script ends here
SkipTrim ==
    /\ pc = "trim"
    /\ ~args.trim
    /\ exitStatus' = 0
    /\ pc' = "done"
    /\ UNCHANGED <<argv, args, cwd, fs, fs0, running, dlRet, trimVars, out, hist, intAt>>

\* -------------------------------------------------------------- trim_mp3s

TmpName(k) == <<"tmp", k, ".mp3">>

\* with NamedTemporaryFile(suffix='.mp3') as sox_tmp: for f in os.listdir('.')
TrimEnter ==
    /\ pc = "trim"
    /\ args.trim
    /\ tmpCreated' = tmpCreated + 1
    /\ sox_tmp' = TmpName(tmpCreated')
    /\ tmpContent' = Empty
    /\ listing' = ListDir(fs[cwd])
    /\ todo' = {n \in listing' : EndsWith(n, ".mp3")}
    /\ pc' = "loop"
    /\ UNCHANGED <<argv, args, cwd, fs, fs0, running, dlRet, f, pre, ret1, ret2,
                   out, hist, exitStatus, intAt>>

\* the next entry of the listing that ends with .mp3 (os.listdir's order is arbitrary)
LoopNext ==
    /\ pc = "loop"
    /\ \E n \in todo :
          /\ f' = n
          /\ todo' = todo \ {n}
          /\ pre' = fs[cwd][n]
    /\ pc' = "sox1"
    /\ UNCHANGED <<argv, args, cwd, fs, fs0, running, dlRet, listing, ret1, ret2,
                   sox_tmp, tmpContent, tmpCreated, out, hist, exitStatus, intAt>>

\* ret1 = subprocess.run(['sox', f, sox_tmp.name, 'reverse', 'silence', ..., 'reverse'])
SoxReverseStart ==
    /\ pc = "sox1"
    /\ running' = running \cup {"sox1"}
    /\ hist' = Append(hist, Event("sox1_start", f, sox_tmp, -1))
    /\ pc' = "sox1_running"
    /\ UNCHANGED <<argv, args, cwd, fs, fs0, dlRet, trimVars, out, exitStatus, intAt>>

SoxReverseEnd ==
    /\ pc = "sox1_running"
    /\ \E rc \in {0, 1} :
          /\ rc = 0 => Decodable(fs[cwd][f])
          /\ ret1' = rc
          /\ tmpContent' = IF rc = 0 THEN ReverseTrim(fs[cwd][f]) ELSE tmpContent
    /\ running' = running \ {"sox1"}
    /\ hist' = Append(hist, Event("sox1_end", f, sox_tmp, ret1'))
    /\ pc' = "sox2"
    /\ UNCHANGED <<argv, args, cwd, fs, fs0, dlRet, todo, listing, f, pre, ret2,
                   sox_tmp, tmpCreated, out, exitStatus, intAt>>

\* Variant: the reverse pass started without waiting for it (Popen instead of
\* run), so the forward pass starts while it is alive.
SoxForwardStart_NoWait ==
    /\ pc = "sox1_running"
    /\ running' = running \cup {"sox2"}
    /\ hist' = Append(hist, Event("sox2_start", f, sox_tmp, -1))
    /\ pc' = "sox2_running"
    /\ UNCHANGED <<argv, args, cwd, fs, fs0, dlRet, trimVars, out, exitStatus, intAt>>

\* ret2 = subprocess.run(['sox', sox_tmp.name, f, 'silence', ...]) -- run whatever ret1 was
SoxForwardStart ==
    /\ pc = "sox2"
    /\ running' = running \cup {"sox2"}
    /\ hist' = Append(hist, Event("sox2_start", f, sox_tmp, -1))
    /\ pc' = "sox2_running"
    /\ UNCHANGED <<argv, args, cwd, fs, fs0, dlRet, trimVars, out, exitStatus, intAt>>

SoxForwardEnd ==
    /\ pc = "sox2_running"
    /\ \E rc \in {0, 1} :
          /\ rc = 0 => Decodable(tmpContent)
          /\ ret2' = rc
          /\ fs' = IF rc = 0 THEN [fs EXCEPT ![cwd][f] = ForwardTrim(tmpContent)] ELSE fs
    /\ running' = running \ {"sox2"}
    /\ hist' = Append(hist, Event("sox2_end", f, sox_tmp, ret2'))
    /\ pc' = "report"
    /\ UNCHANGED <<argv, args, cwd, fs0, dlRet, todo, listing, f, pre, ret1,
                   sox_tmp, tmpContent, tmpCreated, out, exitStatus, intAt>>

\* Variant: a failed trim reported with exit(...) instead of print(...).
Report_ExitOnFailure ==
    /\ pc = "report"
    /\ out' = IF ret1 # 0 \/ ret2 # 0
              THEN Append(out, Msg("WARNING: Failed to trim silence from", f))
              ELSE IF ~args.quiet
                   THEN Append(out, Msg("Silence trimmed from", f))
                   ELSE out
    /\ hist' = Append(hist, Event("report", f, NoName, -1))
    /\ IF ret1 # 0 \/ ret2 # 0
       THEN /\ pc' = "done"
            /\ exitStatus' = 1
            /\ tmpContent' = Absent
       ELSE /\ pc' = "loop"
            /\ UNCHANGED <<exitStatus, tmpContent>>
    /\ UNCHANGED <<argv, args, cwd, fs, fs0, running, dlRet, todo, listing, f, pre,
                   ret1, ret2, sox_tmp, tmpCreated, intAt>>

\* if ret1 or ret2: print WARNING ... elif not quiet: print 'Silence trimmed from'
Report ==
    /\ pc = "report"
    /\ out' = IF ret1 # 0 \/ ret2 # 0
              THEN Append(out, Msg("WARNING: Failed to trim silence from", f))
              ELSE IF ~args.quiet
                   THEN Append(out, Msg("Silence trimmed from", f))
                   ELSE out
    /\ hist' = Append(hist, Event("report", f, NoName, -1))
    /\ pc' = "loop"
    /\ UNCHANGED <<argv, args, cwd, fs, fs0, running, dlRet, trimVars, exitStatus, intAt>>

\* the listing is exhausted: the with block closes (and deletes) the temporary
\* file, trim_mp3s returns and the script ends
TrimExit ==
    /\ pc = "loop"
    /\ todo = {}
    /\ tmpContent' = Absent
    /\ exitStatus' = 0
    /\ pc' = "done"
    /\ UNCHANGED <<argv, args, cwd, fs, fs0, running, dlRet, todo, listing, f, pre,
                   ret1, ret2, sox_tmp, tmpCreated, out, hist, intAt>>

\* ------------------------------------------------------ KeyboardInterrupt

\* Variant: the try block opened after the call of check_dir.
TryPcs_AfterCheckDir == {"download", "dl_running", "clear", "trim", "loop",
                         "sox1", "sox1_running", "sox2", "sox2_running", "report"}

\* the statements inside try: ... except KeyboardInterrupt
TryPcs == {"check_dir", "download", "dl_running", "clear", "trim", "loop",
           "sox1", "sox1_running", "sox2", "sox2_running", "report"}

\* Variant: the temporary file made with delete=False and removed by hand
\* after the loop, so that no statement is covered by a with block.
WithPcs_NoScope == {}

\* the statements inside the with block of trim_mp3s
WithPcs == {"loop", "sox1", "sox1_running", "sox2", "sox2_running", "report"}

\* every statement of the script, from parse_args() to the end of the try block
RunPcs == {"parse", "check_dir", "download", "dl_running", "clear", "trim", "loop",
           "sox1", "sox1_running", "sox2", "sox2_running", "report"}

\* A KeyboardInterrupt.  subprocess.run kills and reaps a running child before
\* the exception propagates (a download cut short may have written files, and
\* the child ends with a non-zero status); the with block deletes the
\* temporary file on the way out.  Inside the try block the handler prints the
\* warning and the script falls off its end (status 0); outside it the
\* interpreter prints a traceback and the process dies of SIGINT (status 130).
Interrupt ==
    /\ pc \in RunPcs
    /\ intAt' = pc
    /\ IF pc = "dl_running"
       THEN \E S \in SUBSET DlTargets :
               /\ dlRet' = 1
               /\ fs' = [fs EXCEPT ![cwd] = Downloaded(fs[cwd], S)]
       ELSE UNCHANGED <<dlRet, fs>>
    /\ running' = {}
    /\ tmpContent' = IF pc \in WithPcs THEN Absent ELSE tmpContent
    /\ IF pc \in TryPcs
       THEN /\ out' = Append(out, Msg("INTERRUPTED: Terminating", NoName))
            /\ exitStatus' = 0
       ELSE /\ out' = Append(out, Msg("Traceback", NoName))
            /\ exitStatus' = 130
    /\ pc' = "done"
    /\ UNCHANGED <<argv, args, cwd, fs0, todo, listing, f, pre, ret1, ret2,
                   sox_tmp, tmpCreated, hist>>

Next ==
    \/ ParseArgs
    \/ CheckDir
    \/ DownloadStart
    \/ DownloadEnd
    \/ ClearList
    \/ SkipTrim
    \/ TrimEnter
    \/ LoopNext
    \/ SoxReverseStart
    \/ SoxReverseEnd
    \/ SoxForwardStart
    \/ SoxForwardEnd
    \/ Report
    \/ TrimExit
    \/ Interrupt

Spec == Init /\ [][Next]_vars

\* ------------------------------------------------------- what the runs show

Done == pc = "done"

\* the positions of hist holding an event of one of the kinds K
Evs(K) == {i \in 1..Len(hist) : hist[i].ev \in K}

SoxEvents == {"sox1_start", "sox1_end", "sox2_start", "sox2_end"}

\* the list file, in the directory the script works in, of file system s
ListFile(s) == s[Resolved(argv.wd)][argv.song_list]

\* the statements of the step sequence: directory resolution, download, list
\* clearing, trimming
StepPcs == {"check_dir", "download", "dl_running", "clear", "trim", "loop",
            "sox1", "sox1_running", "sox2", "sox2_running", "report"}

\* the statements of the trimming phase
TrimmingPcs == {"loop", "sox1", "sox1_running", "sox2", "sox2_running", "report"}

\* ---------------------------------------------------------------------- C1

\* --nodownload is unset and the list file is not in the working directory
ListMissing == ~argv.nodownload /\ ~IsFile(fs0[Resolved(argv.wd)], argv.song_list)

\* C1 as stated: when the list file is missing and --nodownload is unset, the
\* script ends with a non-zero status, no tool is ever invoked and no file is
\* created or modified.
C1_MissingListExitsNonZero ==
    ListMissing =>
        /\ Evs({"dl_start", "sox1_start", "sox2_start"}) = {}
        /\ fs = fs0
        /\ Done => exitStatus # 0

\* C1 amended: when the list file is missing and --nodownload is unset, the
\* script never gets past the directory check, invokes no tool and changes no
\* file; it ends with status 1 and the "could not find song list" message,
\* unless a user interrupt arrived first: an interrupt during the directory
\* check ends it with status zero, one during argument parsing with 130.
C1_MissingListStopsBeforeTools ==
    ListMissing =>
        /\ pc \in {"parse", "check_dir", "done"}
        /\ Evs({"check", "dl_start", "dl_end", "clear"} \cup SoxEvents) = {}
        /\ fs = fs0
        /\ (Done /\ intAt = "none") =>
              /\ exitStatus = 1
              /\ out = <<Msg("ERROR: Could not find song list", argv.song_list)>>
        /\ (Done /\ intAt = "check_dir") => exitStatus = 0
        /\ (Done /\ intAt = "parse") => exitStatus = 130
        /\ intAt \in {"none", "parse", "check_dir"}

\* a run without --wd stopped by the missing list file of ~/Downloads, while the
\* directory it was started in holds one
C1_Witness ==
    /\ ListMissing
    /\ ~argv.wd
    /\ IsFile(fs0["start"], argv.song_list)
    /\ Done
    /\ intAt = "none"
    /\ exitStatus = 1

\* ---------------------------------------------------------------------- C2

\* youtube-dl exited zero and neither --noclear nor --nodownload is set
FetchedWithClearing == dlRet = 0 /\ ~argv.noclear /\ ~argv.nodownload

C3_ListUnchanged ==
    (Done /\ (argv.noclear \/ argv.nodownload)) => ListFile(fs) = ListFile(fs0)

\* ---------------------------------------------------------------------- C4

\* list clearing happens only after a download that was attempted and exited
\* zero, with clearing enabled
ClearingOnlyAfterFetch ==
    Evs({"clear"}) # {} =>
        /\ args.download
        /\ args.clear
        /\ dlRet = 0
        /\ \E i \in Evs({"dl_end"}) : hist[i].rc = 0 /\ \A j \in Evs({"clear"}) : i < j

\* C4 as stated: when youtube-dl exits non-zero the script ends with a non-zero
\* status, the list is not cleared and the trimmer is not invoked; and the
\* list is cleared only after a successful download with clearing enabled.
C4_DownloadFailureExitsNonZero ==
    /\ dlRet > 0 =>
          /\ Evs({"clear"} \cup SoxEvents) = {}
          /\ Done => exitStatus # 0
    /\ ClearingOnlyAfterFetch

\* C4 amended: when youtube-dl exits non-zero (with or without --force) the
\* list is not cleared and the trimmer is not invoked, and the script ends with
\* status 1 and the download error message, unless the download was cut short
\* by a user interrupt, in which case it ends with status zero; and the list
\* is cleared only after a successful download with clearing enabled.
C4_DownloadFailureStopsRun ==
    /\ dlRet > 0 =>
          /\ Done
          /\ Evs({"clear"} \cup SoxEvents) = {}
          /\ ListFile(fs) = ListFile(fs0)
          /\ \/ /\ intAt = "none"
                /\ exitStatus = 1
                /\ out = <<Msg("ERROR: Could not download from list", NoName)>>
             \/ /\ intAt = "dl_running"
                /\ exitStatus = 0
    /\ ClearingOnlyAfterFetch

\* a --force run whose download failed
C4_Witness ==
    /\ dlRet = 1
    /\ argv.force
    /\ ~argv.noclear
    /\ ~argv.notrim
    /\ Done
    /\ intAt = "none"
    /\ exitStatus = 1

\* ---------------------------------------------------------------------- C5

\* C5: once a file's iteration has reported, a file for which either pass
\* exited non-zero has been warned about by name and holds the content it had
\* when its iteration began.
C5_FailedTrimKeepsFile ==
    (pc = "loop" /\ f # NoName /\ (ret1 # 0 \/ ret2 # 0)) =>
        /\ out[Len(out)] = Msg("WARNING: Failed to trim silence from", f)
        /\ fs[cwd][f] = pre

\* ---------------------------------------------------------------------- C6

\* the trimming phase ran to its end without an interrupt
TrimCompleted == Done /\ args.trim /\ tmpCreated > 0 /\ intAt = "none"

\* the number of events of kind k on file n
Attempts(n, k) == Cardinality({i \in Evs({k}) : hist[i].f = n})

\* a pass on file n exited non-zero
Failed(n) == \E i \in Evs({"sox1_end", "sox2_end"}) : hist[i].f = n /\ hist[i].rc # 0

\* the messages printed that name file n
Reports(n) ==
    LET Names_n(m) == m.f = n
    IN  SelectSeq(out, Names_n)

\* C6: when the trimming phase has run to its end, every file of the working
\* directory whose name ends with .mp3 has had both passes attempted once and
\* exactly the report its results call for (a warning if a pass failed, a
\* success notice if both succeeded and --quiet is off, nothing otherwise), and
\* the exit status is zero; a failed pass never ends the run.
C6_TrimFailuresIsolated ==
    /\ TrimCompleted =>
          /\ exitStatus = 0
          /\ \A n \in {m \in ListDir(fs[cwd]) : EndsWith(m, ".mp3")} :
                /\ Attempts(n, "sox1_start") = 1
                /\ Attempts(n, "sox1_end") = 1
                /\ Attempts(n, "sox2_start") = 1
                /\ Attempts(n, "sox2_end") = 1
                /\ Reports(n) =
                      IF Failed(n)
                      THEN <<Msg("WARNING: Failed to trim silence from", n)>>
                      ELSE IF ~args.quiet
                           THEN <<Msg("Silence trimmed from", n)>>
                           ELSE <<>>
    /\ (Done /\ intAt = "none" /\ \E n \in Names : Failed(n)) =>
          /\ exitStatus = 0
          /\ todo = {}

\* a completed trimming phase in which a file failed and a file iterated after
\* it was trimmed
C6_Witness ==
    /\ TrimCompleted
    /\ \E i \in Evs({"sox1_end"}), j \in Evs({"sox2_end"}) :
          /\ i < j
          /\ hist[i].rc # 0
          /\ hist[j].f # hist[i].f
          /\ ~Failed(hist[j].f)

\* ---------------------------------------------------------------------- C7

\* C7: a command line with both --notrim and --nodownload is rejected by the
\* parser (status 2) before the directory change, the list check, the
\* download, the clearing or any trim; every run that gets past parsing has
\* download or trim enabled.
C7_NotrimNodownloadExclusive ==
    /\ (argv.notrim /\ argv.nodownload /\ pc # "parse") =>
          /\ Done
          /\ exitStatus = IF intAt = "parse" THEN 130 ELSE 2
          /\ args = NoArgs
          /\ cwd = "start"
          /\ hist = <<>>
          /\ fs = fs0
          /\ tmpCreated = 0
    /\ args # NoArgs => (args.download \/ args.trim)
    /\ pc \in StepPcs => args # NoArgs

\* a command line with both flags, rejected
C7_Witness ==
    /\ argv.notrim
    /\ argv.nodownload
    /\ Done
    /\ exitStatus = 2

\* ---------------------------------------------------------------------- C8

\* C8: after a user interrupt at any statement of the step sequence the script
\* has printed the interruption warning last, has no child left, has ended
\* with status zero and takes no further step.
C8_InterruptExitsZero ==
    intAt \in StepPcs =>
        /\ Done
        /\ exitStatus = 0
        /\ out[Len(out)] = Msg("INTERRUPTED: Terminating", NoName)
        /\ running = {}
        /\ ~ENABLED Next

\* an interrupt during the forward pass on the second file of a run that
\* downloaded and cleared the list
C8_Witness ==
    /\ intAt = "sox2_running"
    /\ Done
    /\ Evs({"clear"}) # {}
    /\ Evs({"report"}) # {}

\* ---------------------------------------------------------------------- C9

\* C9: the temporary file exists exactly while the script is in the trimming
\* phase; at most one is ever created, every sox invocation is given that
\* one path, and it is gone once the phase has ended, by exhaustion of the
\* listing or by an interrupt.
C9_TempFileScoped ==
    /\ tmpCreated <= 1
    /\ (tmpContent # Absent) <=> (pc \in TrimmingPcs)
    /\ pc \in TrimmingPcs => (tmpCreated = 1 /\ sox_tmp = TmpName(1))
    /\ \A i \in Evs(SoxEvents) : hist[i].tmp = sox_tmp /\ sox_tmp # NoName

\* an interrupt during the reverse pass of the second iteration, after a first
\* iteration that wrote the temporary file
C9_Witness ==
    /\ Done
    /\ intAt = "sox1_running"
    /\ \E i \in Evs({"sox1_end"}) : hist[i].rc = 0
    /\ Evs({"report"}) # {}
    /\ tmpContent = Absent

\* --------------------------------------------------------------------- C10

\* the place of each kind of step in the order check, download, clear, trim
Rank(ev) ==
    CASE ev = "check" -> 1
      [] ev = "dl_start" -> 2
      [] ev = "dl_end" -> 3
      [] ev = "clear" -> 4
      [] OTHER -> 5

\* the event that ends the child a start event starts
EndOf(ev) ==
    CASE ev = "dl_start" -> "dl_end"
      [] ev = "sox1_start" -> "sox1_end"
      [] ev = "sox2_start" -> "sox2_end"
      [] OTHER -> "none"

\* the child a start event starts
ChildOf(ev) ==
    CASE ev = "dl_start" -> "youtube-dl"
      [] ev = "sox1_start" -> "sox1"
      [] ev = "sox2_start" -> "sox2"
      [] OTHER -> "none"

StartEvents == {"dl_start", "sox1_start", "sox2_start"}

EndEvents == {"dl_end", "sox1_end", "sox2_end"}

\* C10: at most one child process is alive at any time, and it is the one
\* started last; the steps of a run occur in the order list check, download,
\* clearing, trimming; a child's start is followed by its own end before
\* anything else happens and an end follows its own start, so no two children
\* overlap; the download has ended right before the list is cleared, and a
\* forward pass starts right after the end of the reverse pass on the same
\* file.
C10_StrictlySequential ==
    /\ Cardinality(running) <= 1
    /\ running # {} =>
          /\ hist # <<>>
          /\ running = {ChildOf(hist[Len(hist)].ev)}
    /\ \A i \in 1..(Len(hist) - 1) : Rank(hist[i].ev) <= Rank(hist[i + 1].ev)
    /\ \A j \in Evs({"dl_start"}) : j = 2 /\ hist[1].ev = "check"
    /\ \A j \in Evs({"clear"}) : hist[j - 1].ev = "dl_end" /\ hist[j - 1].rc = 0
    /\ \A j \in Evs(StartEvents) :
          j < Len(hist) => (hist[j + 1].ev = EndOf(hist[j].ev) /\ hist[j + 1].f = hist[j].f)
    /\ \A j \in Evs(EndEvents) :
          j > 1 /\ EndOf(hist[j - 1].ev) = hist[j].ev /\ hist[j - 1].f = hist[j].f
    /\ \A j \in Evs({"sox2_start"}) :
          /\ hist[j - 1].ev = "sox1_end"
          /\ hist[j - 1].f = hist[j].f

\* a run that went through every step: check, download, clearing, and the two
\* passes on two files
C10_Witness ==
    /\ Done
    /\ intAt = "none"
    /\ Evs({"check"}) # {}
    /\ Evs({"clear"}) # {}
    /\ Cardinality(Evs({"sox2_end"})) >= 2

====
